---------------------------- MODULE Spec2Model ----------------------------
(***************************************************************************)
(* bd: binary dependency manager (src/bd.go, lines 1-284).                 *)
(*                                                                         *)
(* A Go string is a sequence of one-character strings, so that Split,      *)
(* Join and Base are computed the way the library computes them.           *)
(* A path inside the target directory is the file name that follows        *)
(* filepath.Join(binDir, ...): binDir is the same prefix of every path     *)
(* the program touches.                                                    *)
(***************************************************************************)
EXTENDS Integers, Sequences, FiniteSets, TLC

VARIABLES
    platform,    \* runtime.GOOS and isWindowsDevModeEnabled
    manifest,    \* the "binaries" list of bd.json, as written
    dirExists,   \* does binDir exist
    fs,          \* contents of binDir: path -> entry
    pc,          \* position of the bd process
    args,        \* os.Args[1:] of the running process
    config,      \* config.Binaries after loadConfig
    clean,       \* the clean flag of main
    idx,         \* loop index of installBinaries
    goInstalls,  \* "go install" invocations of the process
    child,       \* the spawned child: <<[path, args]>> or <<>>
    exitCode,    \* exit status of the process (-1: it has not exited)
    errMsg,      \* which message the process died with
    runs,        \* number of bd processes started so far
    fs0,         \* history: fs when the last process started
    last         \* history: the command word of the process, whether a clean option followed
                 \* it, how its child ended, and whether the process before it was an install
                 \* that exited 0

vars == <<platform, manifest, dirExists, fs, pc, args, config, clean, idx,
          goInstalls, child, exitCode, errMsg, runs, fs0, last>>

-----------------------------------------------------------------------------
(* Bounds *)

\* longest package identifier of the normalization specification
MaxLen == 4
\* most declarations in a manifest
MaxBins == 2
\* most arguments after the operand of a command
MaxArgs == 1
\* bd processes run one after another
MaxRuns == 2
\* largest child exit status
MaxStatus == 2

-----------------------------------------------------------------------------
(* Strings *)

Latest == <<"l", "a", "t", "e", "s", "t">>
S_install == <<"i", "n", "s", "t", "a", "l", "l">>
S_exec == <<"e", "x", "e", "c">>
S_help == <<"h", "e", "l", "p">>
S_cleanLong == <<"-", "-", "c", "l", "e", "a", "n">>
S_cleanMid == <<"-", "c", "l", "e", "a", "n">>
S_cleanShort == <<"-", "c">>
S_exe == <<".", "e", "x", "e">>

Chars == {"a", "/", "@"}

StrUpTo(n) == UNION {[1..k -> Chars] : k \in 0..n}

Contains(s, c) == \E i \in 1..Len(s) : s[i] = c

\* index of the first c in s, 0 when there is none
IndexOf(s, c) ==
    IF Contains(s, c) THEN CHOOSE i \in 1..Len(s) : s[i] = c /\ \A j \in 1..(i - 1) : s[j] # c
    ELSE 0

\* index of the last c in s, 0 when there is none
LastIndexOf(s, c) ==
    IF Contains(s, c) THEN CHOOSE i \in 1..Len(s) : s[i] = c /\ \A j \in (i + 1)..Len(s) : s[j] # c
    ELSE 0

\* strings.Split(s, sep) for a one-character sep
RECURSIVE Split(_, _)
Split(s, sep) ==
    LET i == IndexOf(s, sep)
    IN  IF i = 0 THEN <<s>>
        ELSE <<SubSeq(s, 1, i - 1)>> \o Split(SubSeq(s, i + 1, Len(s)), sep)

\* strings.Join(parts, sep)
RECURSIVE Join(_, _)
Join(parts, sep) ==
    IF Len(parts) = 0 THEN <<>>
    ELSE IF Len(parts) = 1 THEN parts[1]
    ELSE parts[1] \o sep \o Join(Tail(parts), sep)

RECURSIVE StripTrailing(_, _)
StripTrailing(s, c) ==
    IF Len(s) > 0 /\ s[Len(s)] = c THEN StripTrailing(SubSeq(s, 1, Len(s) - 1), c) ELSE s

\* filepath.Base(path) with separator "/"
Base(path) ==
    IF path = <<>> THEN <<".">>
    ELSE LET p == StripTrailing(path, "/")
             i == LastIndexOf(p, "/")
             q == SubSeq(p, i + 1, Len(p))
         IN  IF q = <<>> THEN <<"/">> ELSE q

-----------------------------------------------------------------------------
(* Configuration loader *)

Binary(pkg, ver, name, tc) == [Package |-> pkg, Version |-> ver, Name |-> name, Toolchain |-> tc]

\* a slip: the default version is applied before the embedded version is split off
normalizeBinary_defaultFirst(bin) ==
    LET parts == Split(bin.Package, "@")
        b1 == IF bin.Version = <<>> THEN [bin EXCEPT !.Version = Latest] ELSE bin
        b2 == IF Len(parts) > 1
              THEN [b1 EXCEPT !.Package = parts[1], !.Version = parts[2]]
              ELSE b1
    IN  IF b2.Name = <<>> THEN [b2 EXCEPT !.Name = Base(b2.Package)] ELSE b2

\* a slip: the explicit version field wins over the embedded one
normalizeBinary_explicitWins(bin) ==
    LET parts == Split(bin.Package, "@")
        b1 == IF Len(parts) > 1
              THEN [bin EXCEPT !.Package = parts[1],
                               !.Version = IF bin.Version = <<>> THEN parts[2] ELSE bin.Version]
              ELSE bin
        b2 == IF b1.Version = <<>> THEN [b1 EXCEPT !.Version = Latest] ELSE b1
    IN  IF b2.Name = <<>> THEN [b2 EXCEPT !.Name = Base(b2.Package)] ELSE b2

normalizeBinary(bin) ==
    LET parts == Split(bin.Package, "@")
        b1 == IF Len(parts) > 1
              THEN [bin EXCEPT !.Package = parts[1], !.Version = parts[2]]
              ELSE bin
        b2 == IF b1.Version = <<>> THEN [b1 EXCEPT !.Version = Latest] ELSE b1
    IN  IF b2.Name = <<>> THEN [b2 EXCEPT !.Name = Base(b2.Package)] ELSE b2

loadConfig(m) == [i \in 1..Len(m) |-> normalizeBinary(m[i])]

-----------------------------------------------------------------------------
(* Platform and file names *)

Platforms == {"unix", "windows", "windows-dev"}

\* runtime.GOOS == "windows"
isWindows == platform # "unix"

\* runtime.GOOS != "windows" || isWindowsDevModeEnabled
canSymlink == platform # "windows"

buildSymlinkName(name) == IF isWindows THEN name \o S_exe ELSE name

buildBinName(name, version, toolchain) ==
    LET binName == Join(<<name, version, toolchain>>, <<"-">>)
    IN  IF isWindows THEN binName \o S_exe ELSE binName

-----------------------------------------------------------------------------
(* The target directory *)

EmptyFs == [p \in {} |-> 0]

NoPath == <<>>
NoData == [src |-> <<>>, tc |-> <<>>, stamp |-> 0]

File(data) == [kind |-> "file", data |-> data, to |-> NoPath]
Symlink(target) == [kind |-> "symlink", data |-> NoData, to |-> target]

\* what "go install pkg@version" with GOTOOLCHAIN=tc leaves in GOBIN, built by process number n
Built(bin, n) == [src |-> bin.Package \o <<"@">> \o bin.Version, tc |-> bin.Toolchain, stamp |-> n]

Put(f, p, e) == [q \in (DOMAIN f) \cup {p} |-> IF q = p THEN e ELSE f[q]]

\* os.Remove(p): removes the entry itself, a symlink is not followed
Remove(f, p) == [q \in (DOMAIN f) \ {p} |-> f[q]]

\* the path of the regular file p leads to, following symlinks; NoPath when there is none
RECURSIVE Resolve(_, _, _)
Resolve(f, p, fuel) ==
    IF p \notin DOMAIN f \/ fuel = 0 THEN NoPath
    ELSE IF f[p].kind = "file" THEN p
    ELSE Resolve(f, f[p].to, fuel - 1)

\* os.Stat(p) returns no error: p exists and, if a symlink, so does what it points at
Stat(f, p) == Resolve(f, p, Cardinality(DOMAIN f) + 1) # NoPath

\* the bytes read through p
Content(f, p) == f[Resolve(f, p, Cardinality(DOMAIN f) + 1)].data

-----------------------------------------------------------------------------
(* Stable alias publisher *)

symlinkBinary(f, target, link) ==
    LET f1 == IF Stat(f, link) THEN Remove(f, link) ELSE f
    IN  IF canSymlink
        THEN IF link \in DOMAIN f1
             THEN [ok |-> FALSE, fs |-> f1]                 \* os.Symlink: file exists
             ELSE [ok |-> TRUE, fs |-> Put(f1, link, Symlink(target))]
        ELSE IF ~Stat(f1, target)
             THEN [ok |-> FALSE, fs |-> f1]                 \* os.Open(target) fails
             ELSE IF link \in DOMAIN f1
                  \* os.Create follows the dangling symlink left at link
                  THEN [ok |-> TRUE, fs |-> Put(f1, f1[link].to, File(Content(f1, target)))]
                  ELSE [ok |-> TRUE, fs |-> Put(f1, link, File(Content(f1, target)))]

-----------------------------------------------------------------------------
(* Installer *)

finalPath(bin) == buildBinName(bin.Name, bin.Version, bin.Toolchain)
symlinkPath(bin) == buildSymlinkName(bin.Name)

\* what the environment does to one build
Outcomes == {"tmpfail", "gofail", "nooutput", "renamefail", "ok"}

\* a slip: the already-installed check is missing
installBinary_noSkip(bin, f, o, n) ==
    IF o = "tmpfail" THEN [ok |-> FALSE, err |-> "temp directory", fs |-> f, invoked |-> 0]
    ELSE IF o = "gofail" THEN [ok |-> FALSE, err |-> "go install", fs |-> f, invoked |-> 1]
    ELSE IF o = "nooutput" THEN [ok |-> FALSE, err |-> "find built binary", fs |-> f, invoked |-> 1]
    ELSE IF o = "renamefail" THEN [ok |-> FALSE, err |-> "move binary", fs |-> f, invoked |-> 1]
    ELSE LET f1 == Put(f, finalPath(bin), File(Built(bin, n)))
             r == symlinkBinary(f1, finalPath(bin), symlinkPath(bin))
         IN  [ok |-> r.ok, err |-> IF r.ok THEN "" ELSE "symlink", fs |-> r.fs, invoked |-> 1]

\* one call of installBinary by process number n: the result, the directory after it and
\* the number of "go install" invocations
installBinary(bin, f, o, n) ==
    IF Stat(f, finalPath(bin)) /\ bin.Version # Latest
    THEN LET r == symlinkBinary(f, finalPath(bin), symlinkPath(bin))
         IN  [ok |-> r.ok, err |-> IF r.ok THEN "" ELSE "symlink", fs |-> r.fs, invoked |-> 0]
    ELSE IF o = "tmpfail" THEN [ok |-> FALSE, err |-> "temp directory", fs |-> f, invoked |-> 0]
    ELSE IF o = "gofail" THEN [ok |-> FALSE, err |-> "go install", fs |-> f, invoked |-> 1]
    ELSE IF o = "nooutput" THEN [ok |-> FALSE, err |-> "find built binary", fs |-> f, invoked |-> 1]
    ELSE IF o = "renamefail" THEN [ok |-> FALSE, err |-> "move binary", fs |-> f, invoked |-> 1]
    ELSE LET f1 == Put(f, finalPath(bin), File(Built(bin, n)))
             r == symlinkBinary(f1, finalPath(bin), symlinkPath(bin))
         IN  [ok |-> r.ok, err |-> IF r.ok THEN "" ELSE "symlink", fs |-> r.fs, invoked |-> 1]

-----------------------------------------------------------------------------
(* Inputs *)

N_a == <<"a">>
N_b == <<"b">>
JunkPath == <<"j">>
JunkData == [src |-> <<"j">>, tc |-> <<>>, stamp |-> 0]

\* manifest entries as written in bd.json
Entries == {
    Binary(<<"x", "/", "a">>, <<"v">>, <<>>, <<>>),
    Binary(<<"a", "@", "w">>, <<>>, <<>>, <<"g">>),
    Binary(<<"x", "/", "c">>, <<>>, N_b, <<>>) }

Manifests == UNION {[1..k -> Entries] : k \in 0..MaxBins}

\* an artifact of an earlier manifest, no longer on disk
OldArtifact == buildBinName(N_a, <<"0">>, <<>>)

\* what the target directory holds before the first run
Seeds == {
    [dir |-> FALSE, fs |-> EmptyFs],
    [dir |-> TRUE, fs |-> Put(Put(EmptyFs, JunkPath, File(JunkData)), buildSymlinkName(N_a), File(JunkData))],
    [dir |-> TRUE, fs |-> Put(Put(EmptyFs, JunkPath, File(JunkData)), buildSymlinkName(N_a), Symlink(OldArtifact))] }

ArgPool == {N_a, S_cleanLong, S_cleanMid, S_cleanShort}
Commands == {S_install, S_exec, S_help}

\* os.Args[2:]: nothing, one argument, or the operand "a" and up to MaxArgs arguments after it
Rests ==
    {<<>>} \cup {<<x>> : x \in ArgPool}
           \cup {<<N_a>> \o r : r \in UNION {[1..k -> ArgPool] : k \in 1..MaxArgs}}

\* os.Args[1:]
ArgVectors == {<<>>} \cup {<<c>> \o r : c \in Commands, r \in Rests}

\* how a child ends: -1 it could not be launched, otherwise its exit status
ChildOutcomes == {-1} \cup (0..MaxStatus)

-----------------------------------------------------------------------------
(* Entry point *)

\* the spellings of the clean option the README documents
CleanSpellings == {S_cleanLong, S_cleanMid, S_cleanShort}

IsCleanFlag(arg) == arg = S_cleanLong \/ arg = S_cleanMid \/ arg = S_cleanShort

\* the clean flag main computes from os.Args[2:]
cleanRequested(a) == \E i \in 2..Len(a) : IsCleanFlag(a[i])

\* a slip: the directory is not emptied
removeAll_keeps(f) == f

\* os.RemoveAll(binDir): what is left of the directory's contents
removeAll(f) == EmptyFs

\* the exit status after cmd.Run of the child returned outcome o
execExitCode(o) == IF o = 0 THEN 0 ELSE 1

Exit(code, msg) ==
    /\ pc' = "exited"
    /\ exitCode' = code
    /\ errMsg' = msg
    /\ args' = <<>>
    /\ child' = <<>>

Init ==
    /\ platform \in Platforms
    /\ manifest \in Manifests
    /\ \E s \in Seeds : dirExists = s.dir /\ fs = s.fs
    /\ pc = "idle"
    /\ args = <<>>
    /\ config = <<>>
    /\ clean = FALSE
    /\ idx = 0
    /\ goInstalls = 0
    /\ child = <<>>
    /\ exitCode = -1
    /\ errMsg = ""
    /\ runs = 0
    /\ fs0 = fs
    /\ last = [cmd |-> <<>>, cleanArg |-> FALSE, status |-> -2, prevOk |-> FALSE]

\* main, lines 55-79: usage check, loadConfig, clean flag scan, os.RemoveAll
Start(a) ==
    /\ pc = "idle"
    /\ runs < MaxRuns
    /\ runs' = runs + 1
    /\ fs0' = fs
    /\ goInstalls' = 0
    /\ idx' = 0
    /\ last' = [cmd |-> IF a = <<>> THEN <<>> ELSE a[1],
                cleanArg |-> \E i \in 2..Len(a) : a[i] \in CleanSpellings,
                status |-> -2,
                prevOk |-> last.prevOk]
    /\ IF Len(a) < 1
       THEN /\ Exit(1, "usage")
            /\ config' = <<>>
            /\ clean' = FALSE
            /\ UNCHANGED <<dirExists, fs>>
       ELSE /\ config' = loadConfig(manifest)
            /\ clean' = cleanRequested(a)
            /\ IF clean'
               THEN dirExists' = FALSE /\ fs' = removeAll(fs)
               ELSE UNCHANGED <<dirExists, fs>>
            /\ pc' = "dispatch"
            /\ args' = a
            /\ UNCHANGED <<child, exitCode, errMsg>>
    /\ UNCHANGED <<platform, manifest>>

\* main, lines 82-85, and installBinaries up to its loop
DispatchInstall ==
    /\ pc = "dispatch"
    /\ args[1] = S_install
    /\ dirExists' = TRUE
    /\ IF Len(config) = 0
       THEN Exit(0, "") /\ UNCHANGED idx
       ELSE pc' = "installing" /\ idx' = 1 /\ UNCHANGED <<args, child, exitCode, errMsg>>
    /\ UNCHANGED <<platform, manifest, fs, config, clean, goInstalls, runs, fs0, last>>

\* a slip: the scan compares the package, not the name
Matches_byPackage(cfg, name) == {i \in 1..Len(cfg) : cfg[i].Package = name}

\* the declarations execBinary's scan matches
Matches(cfg, name) == {i \in 1..Len(cfg) : cfg[i].Name = name}

\* main, lines 86-90, and execBinary up to execCmd's cmd.Run
DispatchExec ==
    /\ pc = "dispatch"
    /\ args[1] = S_exec
    /\ IF Len(args) < 2
       THEN Exit(1, "usage")
       ELSE LET name == args[2]
                m == Matches(config, name)
            IN  IF m = {}
                THEN Exit(1, "not found")
                ELSE LET i == CHOOSE j \in m : \A k \in m : j <= k
                         binPath == finalPath(config[i])
                     IN  IF ~Stat(fs, binPath)
                         THEN Exit(1, "not installed")
                         ELSE /\ pc' = "child"
                              /\ child' = <<[path |-> binPath, args |-> SubSeq(args, 3, Len(args))]>>
                              /\ UNCHANGED <<args, exitCode, errMsg>>
    /\ UNCHANGED <<platform, manifest, dirExists, fs, config, clean, idx, goInstalls, runs, fs0, last>>

\* main, lines 91-92
DispatchUsage ==
    /\ pc = "dispatch"
    /\ args[1] \notin {S_install, S_exec}
    /\ Exit(1, "usage")
    /\ UNCHANGED <<platform, manifest, dirExists, fs, config, clean, idx, goInstalls, runs, fs0, last>>

\* a slip: the loop goes on after a failed installBinary
InstallStep_goesOn(o) ==
    /\ pc = "installing"
    /\ LET r == installBinary(config[idx], fs, o, runs)
       IN  /\ fs' = r.fs
           /\ goInstalls' = goInstalls + r.invoked
           /\ IF idx = Len(config)
              THEN Exit(0, "") /\ UNCHANGED idx
              ELSE idx' = idx + 1 /\ UNCHANGED <<pc, args, child, exitCode, errMsg>>
    /\ UNCHANGED <<platform, manifest, dirExists, config, clean, runs, fs0, last>>

\* one iteration of installBinaries' loop
InstallStep(o) ==
    /\ pc = "installing"
    /\ LET r == installBinary(config[idx], fs, o, runs)
       IN  /\ fs' = r.fs
           /\ goInstalls' = goInstalls + r.invoked
           /\ IF ~r.ok
              THEN Exit(1, r.err) /\ UNCHANGED idx
              ELSE IF idx = Len(config)
                   THEN Exit(0, "") /\ UNCHANGED idx
                   ELSE idx' = idx + 1 /\ UNCHANGED <<pc, args, child, exitCode, errMsg>>
    /\ UNCHANGED <<platform, manifest, dirExists, config, clean, runs, fs0, last>>

\* execCmd: cmd.Run returns, then die or return to main
ChildExit(o) ==
    /\ pc = "child"
    /\ last' = [last EXCEPT !.status = o]
    /\ Exit(execExitCode(o), IF o = 0 THEN "" ELSE "failed to execute")
    /\ UNCHANGED <<platform, manifest, dirExists, fs, config, clean, idx, goInstalls, runs, fs0>>

\* os.Exit has completed: the process and what it held are gone, the directory stays
ProcessGone ==
    /\ pc = "exited"
    /\ pc' = "idle"
    /\ config' = <<>>
    /\ clean' = FALSE
    /\ idx' = 0
    /\ goInstalls' = 0
    /\ exitCode' = -1
    /\ errMsg' = ""
    /\ last' = [cmd |-> <<>>, cleanArg |-> FALSE, status |-> -2,
                prevOk |-> last.cmd = S_install /\ exitCode = 0]
    /\ UNCHANGED <<platform, manifest, dirExists, fs, args, child, runs, fs0>>

Next ==
    \/ \E a \in ArgVectors : Start(a)
    \/ ProcessGone
    \/ DispatchInstall
    \/ DispatchExec
    \/ DispatchUsage
    \/ \E o \in Outcomes : InstallStep(o)
    \/ \E o \in ChildOutcomes : ChildExit(o)

Spec == Init /\ [][Next]_vars

-----------------------------------------------------------------------------
(* Normalization on its own: one manifest entry drawn from all short strings *)

RawEntries ==
    {Binary(p, v, n, <<>>) : p \in StrUpTo(MaxLen), v \in {<<>>, <<"v">>, Latest}, n \in {<<>>, <<"n">>}}

InitNorm ==
    /\ platform = "unix"
    /\ manifest \in {<<e>> : e \in RawEntries}
    /\ dirExists = FALSE
    /\ fs = EmptyFs
    /\ pc = "idle"
    /\ args = <<>>
    /\ config = <<>>
    /\ clean = FALSE
    /\ idx = 0
    /\ goInstalls = 0
    /\ child = <<>>
    /\ exitCode = -1
    /\ errMsg = ""
    /\ runs = 0
    /\ fs0 = fs
    /\ last = [cmd |-> <<>>, cleanArg |-> FALSE, status |-> -2, prevOk |-> FALSE]

\* loadConfig, lines 121-127
LoadConfig ==
    /\ pc = "idle"
    /\ config' = loadConfig(manifest)
    /\ pc' = "loaded"
    /\ UNCHANGED <<platform, manifest, dirExists, fs, args, clean, idx, goInstalls, child,
                   exitCode, errMsg, runs, fs0, last>>

NextNorm == LoadConfig

SpecNorm == InitNorm /\ [][NextNorm]_vars

-----------------------------------------------------------------------------
(* Properties of normalization, checked under SpecNorm *)

\* C6: after normalization no package contains "@", no version is empty and no name is
\* empty, whatever the package, version and name of the entry were.
C6_Normalized ==
    pc = "loaded" =>
        \A i \in 1..Len(config) :
            /\ ~Contains(config[i].Package, "@")
            /\ config[i].Version # <<>>
            /\ config[i].Name # <<>>

\* C6 witness: an entry whose package ends in "/" before a trailing "@", version and name
\* absent, has been normalized.
C6_Witness ==
    /\ pc = "loaded"
    /\ manifest[1] = Binary(<<"a", "/", "@">>, <<>>, <<>>, <<>>)
    /\ config[1] = Binary(<<"a", "/">>, Latest, <<"a">>, <<>>)

\* the package identifier is id@suffix: id is what precedes the first "@", suffix what follows it
PkgId(p) == SubSeq(p, 1, IndexOf(p, "@") - 1)
PkgSuffix(p) == SubSeq(p, IndexOf(p, "@") + 1, Len(p))

\* C7 as stated: for a package id@suffix the normalized package is id and the normalized
\* version is suffix, whatever the explicit version field holds.
C7_AsStated ==
    (pc = "loaded" /\ Contains(manifest[1].Package, "@")) =>
        /\ config[1].Package = PkgId(manifest[1].Package)
        /\ config[1].Version = PkgSuffix(manifest[1].Package)

\* C7 amended: for a package id@suffix with a non-empty suffix that contains no further "@",
\* the normalized package is id and the normalized version is suffix, whatever the explicit
\* version field holds; an empty suffix gives the version "latest".
C7_SplitsEmbeddedVersion ==
    (pc = "loaded" /\ Contains(manifest[1].Package, "@")
                   /\ ~Contains(PkgSuffix(manifest[1].Package), "@")) =>
        /\ config[1].Package = PkgId(manifest[1].Package)
        /\ config[1].Version = IF PkgSuffix(manifest[1].Package) = <<>> THEN Latest
                               ELSE PkgSuffix(manifest[1].Package)

\* C7 witness: package "a/@a" with the explicit version "v" was normalized to version "a".
C7_Witness ==
    /\ pc = "loaded"
    /\ manifest[1].Package = <<"a", "/", "@", "a">>
    /\ manifest[1].Version = <<"v">>
    /\ config[1].Package = <<"a", "/">>
    /\ config[1].Version = <<"a">>

-----------------------------------------------------------------------------
(* Properties of install and exec, checked under Spec *)

\* what is at path p: <<entry>> or <<>>
Entry(f, p) == IF p \in DOMAIN f THEN <<f[p]>> ELSE <<>>

\* the alias at link leads to target: it is a symlink to it or, where symlinks cannot be
\* made, holds the same bytes
ResolvesTo(f, link, target) ==
    /\ Stat(f, link)
    /\ Stat(f, target)
    /\ IF canSymlink
       THEN Resolve(f, link, Cardinality(DOMAIN f) + 1) = Resolve(f, target, Cardinality(DOMAIN f) + 1)
       ELSE Content(f, link) = Content(f, target)

PathsOf(bin) == {finalPath(bin), symlinkPath(bin)}
DeclaredPaths == UNION {PathsOf(config[i]) : i \in 1..Len(config)}

\* the platform's extension for executables
Ext == IF isWindows THEN S_exe ELSE <<>>

\* the artifact name the documentation gives: name-version, name-version-toolchain with a toolchain
DocumentedBinName(bin) ==
    IF bin.Toolchain = <<>>
    THEN bin.Name \o <<"-">> \o bin.Version \o Ext
    ELSE bin.Name \o <<"-">> \o bin.Version \o <<"-">> \o bin.Toolchain \o Ext

InstallDone == pc = "exited" /\ last.cmd = S_install

\* C1 as stated: when exec launched the child, bd's exit status is the child's.
C1_AsStated ==
    (pc = "exited" /\ last.cmd = S_exec /\ last.status >= 0) => exitCode = last.status

\* C2 as stated: after a successful install every declared binary's artifact is at
\* name-version (no toolchain) or name-version-toolchain, plus the platform extension.
C2_AsStated ==
    (InstallDone /\ exitCode = 0) =>
        \A i \in 1..Len(config) : Stat(fs, DocumentedBinName(config[i]))

NoLatest == \A i \in 1..Len(config) : config[i].Version # Latest

SecondInstallDone == InstallDone /\ last.prevOk /\ Len(config) > 0 /\ NoLatest

\* the last declaration that carries the name of declaration i
LastNamed(i) ==
    CHOOSE j \in 1..Len(config) :
        /\ config[j].Name = config[i].Name
        /\ \A k \in 1..Len(config) : config[k].Name = config[i].Name => k <= j

\* C3 as stated: when install succeeded and "install" is run again (the same command, no
\* clean option) with no declaration being "latest", the second run invokes go install zero
\* times, leaves every final artifact as it was and ends with every declaration's alias
\* resolving to that declaration's artifact.
C3_AsStated ==
    (SecondInstallDone /\ ~last.cleanArg) =>
        /\ goInstalls = 0
        /\ \A i \in 1..Len(config) : Entry(fs, finalPath(config[i])) = Entry(fs0, finalPath(config[i]))
        /\ \A i \in 1..Len(config) : ResolvesTo(fs, symlinkPath(config[i]), finalPath(config[i]))

\* C3 amended: when install succeeded and "install" is run again (no clean option) with no
\* declaration being "latest", the second run invokes go install zero times, succeeds,
\* leaves every final artifact as it was and ends with every alias resolving to the artifact
\* of the last declaration that carries its name.
C3_Idempotent ==
    (SecondInstallDone /\ ~last.cleanArg) =>
        /\ goInstalls = 0
        /\ exitCode = 0
        /\ \A i \in 1..Len(config) : Entry(fs, finalPath(config[i])) = Entry(fs0, finalPath(config[i]))
        /\ \A i \in 1..Len(config) :
               ResolvesTo(fs, symlinkPath(config[i]), finalPath(config[LastNamed(i)]))

\* C3 witness: a second install of two pinned declarations with different artifacts ended
\* without a single go install.
C3_Witness ==
    /\ SecondInstallDone
    /\ ~last.cleanArg
    /\ Len(config) = 2
    /\ finalPath(config[1]) # finalPath(config[2])
    /\ goInstalls = 0
    /\ exitCode = 0

\* C4: with a clean option nothing that was in the directory is left when the first install
\* step starts, and from then on the directory holds only artifacts and aliases of declared
\* binaries; without the option install leaves every unrelated file as it was.
C4_Clean ==
    /\ (pc = "dispatch" /\ last.cmd = S_install /\ last.cleanArg) => DOMAIN fs = {}
    /\ (pc \in {"installing", "exited"} /\ last.cmd = S_install /\ last.cleanArg) =>
           DOMAIN fs \subseteq DeclaredPaths
    /\ (pc \in {"dispatch", "installing", "exited"} /\ last.cmd = S_install /\ ~last.cleanArg) =>
           \A p \in (DOMAIN fs0) \ DeclaredPaths : Entry(fs, p) = Entry(fs0, p)

\* C4 witness: a clean install succeeded, the unrelated file seeded before it is gone and
\* the directory is not empty.
C4_Witness ==
    /\ InstallDone
    /\ exitCode = 0
    /\ last.cleanArg
    /\ JunkPath \in DOMAIN fs0
    /\ JunkPath \notin DOMAIN fs
    /\ DOMAIN fs # {}

\* what C5 requires of the step that handles "exec name ..."
C5_Step ==
    (pc = "dispatch" /\ args[1] = S_exec /\ Len(args) >= 2) =>
        LET declared == {i \in 1..Len(config) : config[i].Name = args[2]}
        IN  IF declared = {}
            THEN pc' = "exited" /\ exitCode' = 1 /\ errMsg' = "not found" /\ child' = <<>>
            ELSE LET i == CHOOSE j \in declared : \A k \in declared : j <= k
                 IN  IF finalPath(config[i]) \notin DOMAIN fs
                     THEN pc' = "exited" /\ exitCode' = 1 /\ errMsg' = "not installed" /\ child' = <<>>
                     ELSE pc' = "child" /\ child' # <<>> /\ child'[1].path = finalPath(config[i])

\* C5: exec of an undeclared name exits 1 with "not found" and no child; exec of a declared
\* name whose artifact is absent exits 1 with "not installed" and no child; a child exists
\* only for a declared name whose artifact is there.
C5_ExecGuards ==
    /\ [][C5_Step]_vars
    /\ [](child # <<>> => (pc = "child" /\ child[1].path \in DOMAIN fs))

\* C5 witness: exec of a declared name ended with "not installed".
C5_Witness ==
    /\ pc = "exited"
    /\ last.cmd = S_exec
    /\ errMsg = "not installed"
    /\ exitCode = 1
    /\ last.status = -2

\* C8 as stated: whatever is at the alias path (nothing, a regular file, a symlink to an
\* artifact, a symlink to a file that is gone), publishing the alias of the artifact that
\* the install step has in place succeeds and leaves the alias resolving to it.
C8_AsStated ==
    pc = "installing" =>
        LET target == finalPath(config[idx])
            link == symlinkPath(config[idx])
            f == IF Stat(fs, target) THEN fs ELSE Put(fs, target, File(Built(config[idx], runs)))
            r == symlinkBinary(f, target, link)
        IN  r.ok /\ ResolvesTo(r.fs, link, target)

\* what C9 requires of one step of the install loop
C9_Step ==
    pc = "installing" =>
        /\ pc' = "installing" => idx' = idx + 1
        /\ \A j \in 1..Len(config) : \A p \in PathsOf(config[j]) \ PathsOf(config[idx]) :
               Entry(fs', p) = Entry(fs, p)
        /\ (pc' = "exited" /\ exitCode' = 1) =>
               \A k \in 1..(idx - 1) : \A p \in PathsOf(config[k]) : Entry(fs', p) = Entry(fs, p)

\* what C9 requires of the state install ends in
C9_End ==
    (InstallDone /\ Len(config) > 0) =>
        /\ exitCode \in {0, 1}
        /\ exitCode = 0 =>
               /\ idx = Len(config)
               /\ \A i \in 1..Len(config) :
                      Stat(fs, finalPath(config[i])) /\ Stat(fs, symlinkPath(config[i]))
        /\ exitCode = 1 =>
               /\ goInstalls <= idx
               /\ \A j \in (idx + 1)..Len(config) :
                      \A p \in PathsOf(config[j]) \ UNION {PathsOf(config[k]) : k \in 1..idx} :
                          IF clean THEN p \notin DOMAIN fs ELSE Entry(fs, p) = Entry(fs0, p)

\* C9: install handles the declarations one at a time in manifest order and stops at the
\* first one that fails: nothing is invoked, moved or published for a later declaration,
\* what earlier declarations installed stays, the exit code is 1; it is 0 only when every
\* declaration was installed.
C9_StopsAtFirstFailure == [][C9_Step]_vars /\ []C9_End

\* C9 witness: the second of two declarations failed after the first was installed.
C9_Witness ==
    /\ InstallDone
    /\ exitCode = 1
    /\ Len(config) = 2
    /\ idx = 2
    /\ Stat(fs, finalPath(config[1]))
    /\ ~Stat(fs, finalPath(config[2]))
    /\ goInstalls = 2

\* C10 as stated: exec of a declared name leaves the directory as it was, whatever the
\* pass-through arguments are, and hands them to the child verbatim.
C10_AsStated ==
    (pc \in {"dispatch", "child"} /\ args[1] = S_exec /\ Len(args) >= 2
        /\ \E i \in 1..Len(config) : config[i].Name = args[2]) =>
        /\ fs = fs0
        /\ pc = "child" => child[1].args = SubSeq(args, 3, Len(args))

=============================================================================
